---------------------------- MODULE Spec2Model ----------------------------
(***************************************************************************)
(* Voice-to-voice relay of xiaozhi-esp32-server: the ElevenLabs provider   *)
(* (core/providers/v2v/elevenlabs.py) and the device "listen" handler      *)
(* (core/handle/textHandler/listenMessageHandler.py).                      *)
(*                                                                         *)
(* The session object `conn` is a bag of dynamically created attributes.   *)
(* `attrs` is the set of the optional attribute names that exist           *)
(* (hasattr(conn, a) is a \in attrs); one variable per attribute holds its *)
(* value (a default while the attribute does not exist).                   *)
(*                                                                         *)
(* Coroutines are cut at their await points: one action runs from one      *)
(* suspension to the next.  The device messages and the lifecycle calls    *)
(* run on one sequential path (`pc`); every receive-loop task created by   *)
(* start_conversation runs concurrently (`taskPc[t]`).                     *)
(***************************************************************************)
EXTENDS Integers, Sequences, FiniteSets, TLC

\* ---------------------------------------------------------------- bounds
MaxEvents == 4      \* backend messages, device messages and lifecycle calls in a run
MaxConns == 2       \* connections opened in a run
MaxFail == 1        \* injected codec / send failures in a run

\* ------------------------------------------------------ program constants
frame_size == 1920
ChunkSizes == {200, 1000, 3840}
EventIds == {"abc", "xyz"}

\* ------------------------------------------------------------- variables
VARIABLES
    attrs,                      \* optional attributes of conn that exist
    enable_voice2voice,
    v2v_active,
    client_abort,
    client_is_speaking,
    client_have_voice,
    client_voice_stop,
    elevenlabs_ws,              \* 0 = None, c > 0 = connection c
    elevenlabs_session_id,      \* "" = None
    elevenlabs_receive_task,    \* 0 = None, t > 0 = task t
    elevenlabs_audio_buffer,    \* bytearray, as a sequence of byte runs
    elevenlabs_audio_started,
    elevenlabs_input_count,
    audio_flow_control,         \* 0 = None, 1 = a flow-control record
    wsState,                    \* connection -> "unopened" | "open" | "closing" | "closedOK" | "closedErr"
    taskPc,                     \* task -> position of the receive loop
    taskChunk,                  \* task -> chunk of the suspended _handle_audio_output
    taskBinary,                 \* task -> the message it is handling came as a binary frame
    pc,                         \* position of the session's sequential path
    curFrame,                   \* device frame the suspended handle_audio_input carries
    inCleanup,                  \* stop_conversation was entered from cleanup
    toDevice,                   \* what was sent to the device, in order
    toBackend,                  \* what was sent to the backend, in order
    utt,                        \* utterance the backend is streaming
    received,                   \* connection -> agent audio bytes received on it so far
    nEvents,                    \* events so far
    nFrames,                    \* device audio frames so far
    nConns,                     \* connections opened so far
    nFail,                      \* injected failures so far
    lastChunkUtt,               \* utterance of the latest chunk received (0: none yet)
    interrupted,                \* the interruptions: utterance cut, length of toDevice then
    dropped,                    \* agent audio bytes discarded without being sent
    pings,                      \* the pings received: <<connection, event_id>>
    cancelled,                  \* a handler of the receive loop was cancelled at its await
    stopped,                    \* stop_conversation has returned since the last start_conversation
    cleanedUp,                  \* cleanup returns since the last start_conversation (up to 2)
    notifiedSinceReset,         \* user_activity messages the inbound relay sent since the counter was last deleted
    readyFrames,                \* the device frames that arrived while the relay was ready, in order
    lastEvent,                  \* the latest event handled: its kind and the task that handled it
    raised                      \* an exception has reached the caller of a handler

relayVars == <<attrs, enable_voice2voice, v2v_active, client_abort, client_is_speaking,
               client_have_voice, client_voice_stop, elevenlabs_ws, elevenlabs_session_id,
               elevenlabs_receive_task, elevenlabs_audio_buffer, elevenlabs_audio_started,
               elevenlabs_input_count, audio_flow_control>>
procVars == <<wsState, taskPc, taskChunk, taskBinary, pc, curFrame, inCleanup>>
histVars == <<toDevice, toBackend, utt, received, nEvents, nFrames, nConns, nFail,
              lastChunkUtt, interrupted, dropped, pings, cancelled, cleanedUp,
              stopped, notifiedSinceReset, readyFrames, lastEvent, raised>>
vars == <<relayVars, procVars, histVars>>

Conns == 1..MaxConns
NoChunk == [ws |-> 0, lo |-> 0, hi |-> 0, utt |-> 0]

\* ------------------------------------------------- byte-sequence helpers
\* A bytearray is a sequence of runs [ws, lo, hi, utt]: the bytes numbered
\* lo..hi in their order of arrival on connection ws, all of utterance utt.
RunLen(r) == IF r.ws = 0 THEN 0 ELSE r.hi - r.lo + 1

RECURSIVE BufLen(_)
BufLen(buf) == IF buf = <<>> THEN 0 ELSE RunLen(Head(buf)) + BufLen(Tail(buf))

\* buf[:n]
RECURSIVE SliceFront(_, _)
SliceFront(buf, n) ==
    IF n <= 0 \/ buf = <<>> THEN <<>>
    ELSE IF RunLen(Head(buf)) <= n
         THEN <<Head(buf)>> \o SliceFront(Tail(buf), n - RunLen(Head(buf)))
         ELSE <<[Head(buf) EXCEPT !.hi = Head(buf).lo + n - 1]>>

\* buf[n:]
RECURSIVE SliceRest(_, _)
SliceRest(buf, n) ==
    IF n <= 0 \/ buf = <<>> THEN buf
    ELSE IF RunLen(Head(buf)) <= n
         THEN SliceRest(Tail(buf), n - RunLen(Head(buf)))
         ELSE <<[Head(buf) EXCEPT !.lo = Head(buf).lo + n]>> \o Tail(buf)

\* bytearray.extend
Extend(buf, chunk) == Append(buf, chunk)

\* hasattr / delattr
hasattr(a) == a \in attrs


\* ------------------------------------------------------------ initial state
\* conn after V2VProvider.initialize: no connection, no task, inactive.  The
\* turn flags are the connection handler's defaults.
Init ==
    /\ attrs = {"elevenlabs_ws", "elevenlabs_session_id", "elevenlabs_receive_task"}
    /\ enable_voice2voice \in BOOLEAN
    /\ v2v_active = FALSE
    /\ client_abort = FALSE
    /\ client_is_speaking = FALSE
    /\ client_have_voice = FALSE
    /\ client_voice_stop = FALSE
    /\ elevenlabs_ws = 0
    /\ elevenlabs_session_id = ""
    /\ elevenlabs_receive_task = 0
    /\ elevenlabs_audio_buffer = <<>>
    /\ elevenlabs_audio_started = FALSE
    /\ elevenlabs_input_count = 0
    /\ audio_flow_control = 0
    /\ wsState = [c \in Conns |-> "unopened"]
    /\ taskPc = [c \in Conns |-> "none"]
    /\ taskChunk = [c \in Conns |-> NoChunk]
    /\ taskBinary = [c \in Conns |-> FALSE]
    /\ pc = "idle"
    /\ curFrame = 0
    /\ inCleanup = FALSE
    /\ toDevice = <<>>
    /\ toBackend = <<>>
    /\ utt = 1
    /\ received = [c \in Conns |-> 0]
    /\ nEvents = 0 /\ nFrames = 0 /\ nConns = 0 /\ nFail = 0
    /\ lastChunkUtt = 0
    /\ interrupted = {}
    /\ dropped = 0
    /\ pings = <<>>
    /\ cancelled = FALSE
    /\ notifiedSinceReset = 0
    /\ cleanedUp = 0
    /\ stopped = FALSE
    /\ readyFrames = <<>>
    /\ lastEvent = [kind |-> "none", ws |-> 0]
    /\ raised = FALSE

\* ------------------------------------------------- messages on the two wires
\* utt and held are bookkeeping: the utterance a playback start is sent for,
\* and the bytes the buffer held when the frame was sliced
DevMsg(type, frame, u, held) == [type |-> type, frame |-> frame, utt |-> u, held |-> held]
BackMsg(type, ws, event_id, frame) ==
    [type |-> type, ws |-> ws, event_id |-> event_id, frame |-> frame]

\* core.handle.sendAudioHandle.send_tts_message: one indication to the device
send_tts_message(log, state, u, held) == Append(log, DevMsg(state, <<>>, u, held))

\* core.handle.sendAudioHandle.sendAudio: one audio frame to the device
sendAudio(log, pcm_frame, held) == Append(log, DevMsg("audio", pcm_frame, 0, held))

\* conn.elevenlabs_ws.send(...) on connection c: written to the wire while the
\* connection is open, raises otherwise
WsSend(log, c, type, event_id, frame) ==
    IF c \in Conns /\ wsState[c] = "open" THEN Append(log, BackMsg(type, c, event_id, frame)) ELSE log

\* --------------------------------------------------------------- receive loop
\* Task t iterates connection t (the connection start_conversation opened
\* when it created the task).
Receiving(t) == taskPc[t] = "recv" /\ wsState[t] = "open"
CanEvent == nEvents < MaxEvents

\* one more event is handled: a message of the backend on task ws, a message
\* of the device or a call of the lifecycle (ws = 0)
Event(kind, ws) ==
    /\ CanEvent
    /\ nEvents' = nEvents + 1
    /\ lastEvent' = [kind |-> kind, ws |-> ws]

\* line 140: the loop leaves on the first message it sees while inactive
LoopActive(t) == Receiving(t) /\ v2v_active

\* the slice taken off the front of the buffer (lines 309-310)
FrameOf(buf) == SliceFront(buf, frame_size)

\* a relay that forgets to drop the frame it has sliced
RestOfKeepsFrame(buf) == buf

RestOf(buf) == SliceRest(buf, frame_size)

\* a drain that sends whatever the buffer holds
HasFrameAnyBytes(buf) == BufLen(buf) >= 1

\* a drain that waits for two frames before it sends one
HasFramePrebuffered(buf) == BufLen(buf) >= 2 * frame_size

\* the loop condition of the drain (line 302)
HasFrame(buf) == BufLen(buf) >= frame_size

\* lines 302-317 from the loop test to the next suspension, the buffer
\* being buf and the attributes at: either the loop ends (below one frame,
\* or abort seen: buffer cleared), or one frame is sliced, encoded and
\* handed to sendAudio, which suspends; an encode or send error leaves the
\* handler through line 322 with the frame already sliced off.
Drain(t, buf, at, binary) ==
    IF "elevenlabs_audio_buffer" \notin at
    THEN /\ taskPc' = [taskPc EXCEPT ![t] = "recv"]
         /\ taskBinary' = [taskBinary EXCEPT ![t] = FALSE]
         /\ attrs' = at
         /\ dropped' = dropped + BufLen(buf)
         /\ UNCHANGED <<elevenlabs_audio_buffer, toDevice, nFail, audio_flow_control>>
    ELSE IF ~HasFrame(buf)
    THEN /\ elevenlabs_audio_buffer' = buf
         /\ taskPc' = [taskPc EXCEPT ![t] = "recv"]
         /\ taskBinary' = [taskBinary EXCEPT ![t] = FALSE]
         /\ attrs' = at
         /\ UNCHANGED <<toDevice, nFail, audio_flow_control, dropped>>
    ELSE IF client_abort
    THEN /\ elevenlabs_audio_buffer' = <<>>
         /\ taskPc' = [taskPc EXCEPT ![t] = "recv"]
         /\ taskBinary' = [taskBinary EXCEPT ![t] = FALSE]
         /\ attrs' = at
         /\ dropped' = dropped + BufLen(buf)
         /\ UNCHANGED <<toDevice, nFail, audio_flow_control>>
    ELSE \/ /\ "elevenlabs_opus_encoder" \in at
            /\ elevenlabs_audio_buffer' = RestOf(buf)
            /\ toDevice' = sendAudio(toDevice, FrameOf(buf), BufLen(buf))
            /\ attrs' = at \cup {"audio_flow_control"}
            /\ audio_flow_control' = 1
            /\ taskPc' = [taskPc EXCEPT ![t] = "send_audio"]
            /\ taskBinary' = [taskBinary EXCEPT ![t] = binary]
            /\ UNCHANGED <<nFail, dropped>>
         \/ /\ nFail < MaxFail \/ "elevenlabs_opus_encoder" \notin at
            /\ elevenlabs_audio_buffer' = RestOf(buf)
            /\ nFail' = IF "elevenlabs_opus_encoder" \in at THEN nFail + 1 ELSE nFail
            /\ attrs' = at
            /\ dropped' = dropped + BufLen(FrameOf(buf))
            /\ taskPc' = [taskPc EXCEPT ![t] = "recv"]
            /\ taskBinary' = [taskBinary EXCEPT ![t] = FALSE]
            /\ UNCHANGED <<toDevice, audio_flow_control>>

\* lines 137-142: a message arrives while the session is inactive
RecvInactive(t) ==
    /\ Receiving(t) /\ ~v2v_active
    /\ Event("other", t)
    /\ taskPc' = [taskPc EXCEPT ![t] = "done"]
    /\ UNCHANGED <<relayVars, wsState, taskChunk, taskBinary, pc, curFrame, inCleanup, toDevice,
                   toBackend, utt, received, nFrames, nConns, readyFrames, nFail, lastChunkUtt, interrupted, dropped, pings, cancelled, notifiedSinceReset, cleanedUp, stopped, raised>>

\* lines 139, 157-162: the iteration ends with the connection.  A close
\* with an error code raises ConnectionClosed; a clean close ends the
\* async-for without raising.
RecvClosed(t) ==
    /\ taskPc[t] = "recv"
    /\ wsState[t] \in {"closedOK", "closedErr"}
    /\ taskPc' = [taskPc EXCEPT ![t] = "done"]
    /\ v2v_active' = IF wsState[t] = "closedErr" THEN FALSE ELSE v2v_active
    /\ UNCHANGED <<attrs, enable_voice2voice, client_abort, client_is_speaking,
                   client_have_voice, client_voice_stop, elevenlabs_ws,
                   elevenlabs_session_id, elevenlabs_receive_task, elevenlabs_audio_buffer,
                   elevenlabs_audio_started, elevenlabs_input_count, audio_flow_control,
                   wsState, taskChunk, taskBinary, pc, curFrame, inCleanup, histVars>>

\* lines 176-181: conversation_initiation_metadata
RecvMetadata(t) ==
    /\ LoopActive(t)
    /\ Event("other", t)
    /\ elevenlabs_session_id' = "conv"
    /\ attrs' = attrs \cup {"elevenlabs_session_id"}
    /\ UNCHANGED <<enable_voice2voice, v2v_active, client_abort, client_is_speaking,
                   client_have_voice, client_voice_stop, elevenlabs_ws,
                   elevenlabs_receive_task, elevenlabs_audio_buffer,
                   elevenlabs_audio_started, elevenlabs_input_count, audio_flow_control,
                   procVars, toDevice, toBackend, utt, received, nFrames, nConns, readyFrames,
                   nFail, lastChunkUtt, interrupted, dropped, pings, cancelled, notifiedSinceReset, cleanedUp, stopped, raised>>

\* a handler that leaves the playback-started flag alone
UserTranscriptStartedKept == elevenlabs_audio_started

\* lines 193-194
UserTranscriptStarted == FALSE

\* lines 183-194: user_transcript
RecvUserTranscript(t) ==
    /\ LoopActive(t)
    /\ Event("user_transcript", t)
    /\ client_abort' = FALSE
    /\ client_is_speaking' = FALSE
    /\ elevenlabs_audio_started' =
         IF hasattr("elevenlabs_audio_started") THEN UserTranscriptStarted
         ELSE elevenlabs_audio_started
    /\ utt' = utt + 1
    /\ UNCHANGED <<attrs, enable_voice2voice, v2v_active, client_have_voice,
                   client_voice_stop, elevenlabs_ws, elevenlabs_session_id,
                   elevenlabs_receive_task, elevenlabs_audio_buffer,
                   elevenlabs_input_count, audio_flow_control, procVars, toDevice,
                   toBackend, received, nFrames, nConns, readyFrames, nFail, lastChunkUtt, interrupted, dropped, pings, cancelled, notifiedSinceReset, cleanedUp, stopped, raised>>

\* an agent_response that leaves the playback-started flag alone
AgentResponseStartedKept == elevenlabs_audio_started

\* the flags agent_response leaves (lines 202-205)
AgentResponseStarted == FALSE
AgentResponseSpeaking == FALSE

\* lines 196-208: agent_response / agent_response_transcript, up to the
\* suspension in send_tts_message(conn, "stop", None)
RecvAgentResponse(t) ==
    /\ LoopActive(t)
    /\ Event("other", t)
    /\ elevenlabs_audio_started' =
         IF hasattr("elevenlabs_audio_started") THEN AgentResponseStarted
         ELSE elevenlabs_audio_started
    /\ client_is_speaking' = AgentResponseSpeaking
    /\ client_abort' = FALSE
    /\ toDevice' = send_tts_message(toDevice, "tts_stop", 0, 0)
    /\ taskPc' = [taskPc EXCEPT ![t] = "tts_stop"]
    /\ \E binary \in BOOLEAN : taskBinary' = [taskBinary EXCEPT ![t] = binary]
    /\ UNCHANGED <<attrs, enable_voice2voice, v2v_active, client_have_voice,
                   client_voice_stop, elevenlabs_ws, elevenlabs_session_id,
                   elevenlabs_receive_task, elevenlabs_audio_buffer,
                   elevenlabs_input_count, audio_flow_control, wsState, taskChunk, pc,
                   curFrame, inCleanup, toBackend, utt, received, nFrames, nConns, readyFrames,
                   nFail, lastChunkUtt, interrupted, dropped, pings, cancelled, notifiedSinceReset, cleanedUp, stopped, raised>>

\* line 208 returns: back to the async-for, also after the send of the pong
\* (line 243)
ResumeRecv(t) ==
    /\ taskPc[t] \in {"tts_stop", "pong"}
    /\ taskPc' = [taskPc EXCEPT ![t] = "recv"]
    /\ taskBinary' = [taskBinary EXCEPT ![t] = FALSE]
    /\ UNCHANGED <<relayVars, wsState, taskChunk, pc, curFrame, inCleanup, histVars>>

\* lines 210-224: interruption
RecvInterruption(t) ==
    /\ LoopActive(t)
    /\ Event("interruption", t)
    /\ elevenlabs_audio_started' =
         IF hasattr("elevenlabs_audio_started") THEN FALSE ELSE elevenlabs_audio_started
    /\ elevenlabs_audio_buffer' = <<>>
    /\ dropped' = dropped + BufLen(elevenlabs_audio_buffer)
    /\ client_is_speaking' = FALSE
    /\ utt' = utt + 1
    /\ UNCHANGED <<attrs, enable_voice2voice, v2v_active, client_abort, client_have_voice,
                   client_voice_stop, elevenlabs_ws, elevenlabs_session_id,
                   elevenlabs_receive_task, elevenlabs_input_count, audio_flow_control,
                   procVars, toDevice, toBackend, received, nFrames, nConns, readyFrames, nFail,
                   lastChunkUtt, interrupted, pings, cancelled, notifiedSinceReset, cleanedUp, stopped, raised>>

\* the event_id the pong carries (lines 237-242)
PongId(event_id) == event_id

\* lines 235-244: ping, up to the suspension in the send of the pong
RecvPing(t, event_id) ==
    /\ LoopActive(t)
    /\ Event("other", t)
    /\ toBackend' = WsSend(toBackend, elevenlabs_ws, "pong", PongId(event_id), 0)
    /\ pings' = Append(pings, <<t, event_id>>)
    /\ taskPc' = [taskPc EXCEPT ![t] = "pong"]
    /\ \E binary \in BOOLEAN : taskBinary' = [taskBinary EXCEPT ![t] = binary]
    /\ UNCHANGED <<relayVars, wsState, taskChunk, pc, curFrame, inCleanup, toDevice, utt,
                   received, nFrames, nConns, readyFrames, nFail, lastChunkUtt, interrupted, dropped,
                   cancelled, notifiedSinceReset, cleanedUp, stopped, raised>>

\* the messages the handler drops: a type it does not know (lines 246-247),
\* an envelope json.loads or data.get rejects (lines 173-174, 249-252), an
\* audio event without payload (lines 228-230)
DroppedKinds == {"unknown", "malformed", "empty_audio"}

\* a handler whose except clause gives the session up, as the loop's does
DroppedEndsSession == FALSE

\* lines 246-252: neither the else branch nor the except clauses touch
\* v2v_active
DroppedActive == v2v_active

\* lines 172-174, 226-230, 246-252: a message that is dropped
RecvDropped(t, kind) ==
    /\ LoopActive(t)
    /\ Event(kind, t)
    /\ v2v_active' = DroppedActive
    /\ UNCHANGED <<attrs, enable_voice2voice, client_abort, client_is_speaking,
                   client_have_voice, client_voice_stop, elevenlabs_ws,
                   elevenlabs_session_id, elevenlabs_receive_task, elevenlabs_audio_buffer,
                   elevenlabs_audio_started, elevenlabs_input_count, audio_flow_control,
                   procVars, toDevice, toBackend, utt, received, nFrames, nConns,
                   readyFrames, nFail, lastChunkUtt, interrupted, dropped, pings, cancelled, notifiedSinceReset,
                   cleanedUp, stopped, raised>>


\* a relay that sends the playback start only while the flag does not exist
FreshUtteranceNoAttrOnly == ~hasattr("elevenlabs_audio_started")

\* line 277: the chunk opens a fresh utterance
FreshUtterance == ~hasattr("elevenlabs_audio_started") \/ ~elevenlabs_audio_started

\* a fresh utterance that leaves the activity counter in place
FreshDeletesFlowControlOnly == {"audio_flow_control"}

\* lines 281-282, 288-289: the attributes a fresh utterance deletes
FreshDeletes == {"elevenlabs_input_count", "audio_flow_control"}

\* lines 264-274: the encoder and the buffer are created on first use
WithCodecOut(at) == at \cup {"elevenlabs_opus_encoder", "elevenlabs_audio_buffer"}

\* lines 226-233, 262-317: an audio chunk of n bytes.  On a fresh utterance
\* the flags are reset and the handler suspends in send_tts_message(conn,
\* "start", None) before the chunk is appended; otherwise the chunk is
\* appended and the drain runs to its first suspension.
RecvAudio(t, n) ==
    /\ LoopActive(t)
    /\ Event("other", t)
    /\ received' = [received EXCEPT ![t] = received[t] + n]
    /\ lastChunkUtt' = utt
    /\ \E binary \in BOOLEAN :
       LET chunk == [ws |-> t, lo |-> received[t] + 1, hi |-> received[t] + n, utt |-> utt]
           buf == IF hasattr("elevenlabs_audio_buffer") THEN elevenlabs_audio_buffer ELSE <<>>
       IN IF FreshUtterance
          THEN /\ elevenlabs_audio_started' = TRUE
               /\ attrs' = (WithCodecOut(attrs) \cup {"elevenlabs_audio_started"})
                             \ FreshDeletes
               /\ elevenlabs_input_count' = 0
               /\ audio_flow_control' = 0
               /\ client_abort' = FALSE
               /\ client_is_speaking' = TRUE
               /\ elevenlabs_audio_buffer' = buf
               /\ toDevice' = send_tts_message(toDevice, "tts_start", utt, BufLen(buf) + n)
               /\ taskChunk' = [taskChunk EXCEPT ![t] = chunk]
               /\ taskPc' = [taskPc EXCEPT ![t] = "tts_start"]
               /\ taskBinary' = [taskBinary EXCEPT ![t] = binary]
               /\ notifiedSinceReset' = 0
               /\ UNCHANGED <<nFail, dropped>>
          ELSE /\ Drain(t, Extend(buf, chunk), WithCodecOut(attrs), binary)
               /\ UNCHANGED <<elevenlabs_audio_started, elevenlabs_input_count,
                              client_abort, client_is_speaking, taskChunk,
                              notifiedSinceReset>>
    /\ UNCHANGED <<enable_voice2voice, v2v_active, client_have_voice, client_voice_stop,
                   elevenlabs_ws, elevenlabs_session_id, elevenlabs_receive_task, wsState,
                   pc, curFrame, inCleanup, toBackend, utt, nFrames, nConns, readyFrames,
                   interrupted, pings, cancelled, cleanedUp, stopped, raised>>

\* line 294 returns: lines 297-317, the chunk is appended and the drain runs
ResumeTtsStart(t) ==
    /\ taskPc[t] = "tts_start"
    /\ Drain(t, Extend(elevenlabs_audio_buffer, taskChunk[t]), attrs, taskBinary[t])
    /\ taskChunk' = [taskChunk EXCEPT ![t] = NoChunk]
    /\ UNCHANGED <<enable_voice2voice, v2v_active, client_abort, client_is_speaking,
                   client_have_voice, client_voice_stop, elevenlabs_ws,
                   elevenlabs_session_id, elevenlabs_receive_task,
                   elevenlabs_audio_started, elevenlabs_input_count, wsState, pc,
                   curFrame, inCleanup, toBackend, utt, received, nFrames,
                   nConns, readyFrames, lastChunkUtt, interrupted, nEvents, lastEvent, pings, cancelled, notifiedSinceReset, cleanedUp, stopped, raised>>

\* line 316 returns: the loop test of line 302 again
ResumeSendAudio(t) ==
    /\ taskPc[t] = "send_audio"
    /\ Drain(t, elevenlabs_audio_buffer, attrs, taskBinary[t])
    /\ UNCHANGED <<enable_voice2voice, v2v_active, client_abort, client_is_speaking,
                   client_have_voice, client_voice_stop, elevenlabs_ws,
                   elevenlabs_session_id, elevenlabs_receive_task,
                   elevenlabs_audio_started, elevenlabs_input_count, wsState, taskChunk,
                   pc, curFrame, inCleanup, toBackend, utt, received, nFrames,
                   nConns, readyFrames, lastChunkUtt, interrupted, nEvents, lastEvent, pings, cancelled, notifiedSinceReset, cleanedUp, stopped, raised>>

\* the backend end of connection c goes away, with or without a close code
BackendClose(c) ==
    /\ wsState[c] = "open"
    /\ Event("other", 0)
    /\ \E how \in {"closedOK", "closedErr"} : wsState' = [wsState EXCEPT ![c] = how]
    /\ UNCHANGED <<relayVars, taskPc, taskChunk, taskBinary, pc, curFrame, inCleanup, toDevice,
                   toBackend, utt, received, nFrames, nConns, readyFrames, nFail, lastChunkUtt,
                   interrupted, dropped, pings, cancelled, notifiedSinceReset, cleanedUp, stopped, raised>>


\* ------------------------------------------------------ device "listen" handler
\* Only state "start" touches the relay; "stop" and "detect" (lines 59-93)
\* drive the speech-recognition and chat path, which the relay replaces.
\* notify_user_speaking line 332: the guard under which nothing is sent
NoWs == ~hasattr("elevenlabs_ws") \/ elevenlabs_ws = 0

\* a handler that mutes whether the relay is enabled or not
RelayEnabledAlways == TRUE

\* line 31: the relay is enabled and the session has a provider
\* (enable_voice2voice stands for the whole condition)
RelayEnabled == enable_voice2voice

\* STEP 1, line 35
ListenAbort == TRUE

\* a handler that notifies before it clears the buffer
ListenBufferKept(buf) == buf

\* STEP 2, lines 39-40
ListenBuffer(buf) == <<>>

\* STEP 2, lines 41-42
ListenStarted(started) ==
    IF hasattr("elevenlabs_audio_started") THEN FALSE ELSE started

\* STEP 3, lines 45-46
ListenFlowControl(fc) == IF hasattr("audio_flow_control") THEN 0 ELSE fc

\* a handler that leaves the abort flag as the mute set it
ListenAbortKept == client_abort

\* STEP 5, line 52
ListenAbortCleared == FALSE

\* STEP 6, lines 55-56
ListenInputCount(n) == IF hasattr("elevenlabs_input_count") THEN 0 ELSE n

\* the utterance in play is cut by the user
Draining == \E t \in Conns : taskPc[t] = "send_audio"
Cut(by) ==
    IF lastChunkUtt = utt
    THEN interrupted \cup {[utt |-> utt, at |-> Len(toDevice), by |-> by,
                            draining |-> Draining]}
    ELSE interrupted

\* lines 26-58, state "start": to the suspension in the send of the
\* user_activity message (line 340), or to the end when there is nothing to
\* await (relay disabled, or no connection: notify_user_speaking returns at
\* line 333)
ListenStart ==
    /\ pc = "idle"
    /\ Event("listen", 0)
    /\ client_have_voice' = TRUE
    /\ client_voice_stop' = FALSE
    /\ IF ~RelayEnabled
       THEN UNCHANGED <<client_abort, client_is_speaking, elevenlabs_audio_buffer,
                        elevenlabs_audio_started, audio_flow_control,
                        elevenlabs_input_count, toBackend, pc, interrupted, dropped>>
       ELSE /\ client_is_speaking' = FALSE
            /\ elevenlabs_audio_buffer' = ListenBuffer(elevenlabs_audio_buffer)
            /\ dropped' = dropped + BufLen(elevenlabs_audio_buffer)
                              - BufLen(elevenlabs_audio_buffer')
            /\ elevenlabs_audio_started' = ListenStarted(elevenlabs_audio_started)
            /\ audio_flow_control' = ListenFlowControl(audio_flow_control)
            /\ interrupted' = Cut("listen")
            /\ IF NoWs
               THEN /\ client_abort' = ListenAbortCleared
                    /\ elevenlabs_input_count' = ListenInputCount(elevenlabs_input_count)
                    /\ UNCHANGED <<toBackend, pc>>
               ELSE /\ client_abort' = ListenAbort
                    /\ toBackend' = WsSend(toBackend, elevenlabs_ws, "user_activity", "", 0)
                    /\ pc' = "listen_notify"
                    /\ UNCHANGED elevenlabs_input_count
    /\ UNCHANGED <<attrs, enable_voice2voice, v2v_active, elevenlabs_ws,
                   elevenlabs_session_id, elevenlabs_receive_task, wsState, taskPc,
                   taskChunk, taskBinary, curFrame, inCleanup, toDevice, utt, received, nConns, readyFrames, nFail, lastChunkUtt, nFrames, pings, cancelled, notifiedSinceReset, cleanedUp, stopped, raised>>

\* lines 49-58: the send has returned (or raised, line 342): STEP 5, STEP 6
ListenResume ==
    /\ pc = "listen_notify"
    /\ client_abort' = ListenAbortCleared
    /\ elevenlabs_input_count' = ListenInputCount(elevenlabs_input_count)
    /\ pc' = "idle"
    /\ UNCHANGED <<attrs, enable_voice2voice, v2v_active, client_is_speaking,
                   client_have_voice, client_voice_stop, elevenlabs_ws,
                   elevenlabs_session_id, elevenlabs_receive_task, elevenlabs_audio_buffer,
                   elevenlabs_audio_started, audio_flow_control, wsState, taskPc,
                   taskChunk, taskBinary, curFrame, inCleanup, histVars>>

\* ------------------------------------------------------------- inbound relay
\* a relay that looks at the handle only
InputReadyHandleOnly == hasattr("elevenlabs_ws") /\ elevenlabs_ws # 0

\* lines 354-357: the relay is ready
InputReady == v2v_active /\ hasattr("elevenlabs_ws") /\ elevenlabs_ws # 0

\* line 383
NextInputCount(n) == n + 1

\* a relay that sends what it has when decode raises
SendReachedAlways(decodes) == TRUE

\* lines 393-411: the send of line 407 is reached only when decode (line
\* 395) has returned; its exception leaves the try block through line 411
SendReached(decodes) == decodes

\* lines 383-419 from the counter increment to the send of the audio chunk
\* (line 407), which suspends; the attribute errors of lines 383 and 398 and
\* a decode error leave the handler through lines 411 and 416.
Forward(frame, decodes) ==
    IF ~hasattr("elevenlabs_input_count")
    THEN /\ pc' = "idle"
         /\ curFrame' = 0
         /\ UNCHANGED <<attrs, elevenlabs_input_count, toBackend>>
    ELSE /\ elevenlabs_input_count' = NextInputCount(elevenlabs_input_count)
         /\ attrs' = attrs \cup {"elevenlabs_opus_decoder"}
         /\ IF SendReached(decodes) /\ ~NoWs
            THEN /\ toBackend' = WsSend(toBackend, elevenlabs_ws, "user_audio_chunk", "", frame)
                 /\ pc' = "input_send"
                 /\ curFrame' = frame
            ELSE /\ pc' = "idle"
                 /\ curFrame' = 0
                 /\ UNCHANGED toBackend

\* a relay that takes every first frame for an interruption
InterruptsAlways == TRUE

\* line 370: the first frame interrupts the agent while it is speaking
Interrupts == client_is_speaking

\* a relay that notifies on every frame
FirstFrameAlways == TRUE

\* line 364: the frame finds no activity counter
FirstFrame == ~hasattr("elevenlabs_input_count")

\* lines 353-419: one Opus frame from the device, to the first suspension:
\* the user_activity send when the counter does not exist yet, else the
\* audio send
AudioInput ==
    /\ pc = "idle"
    /\ Event(IF InputReady /\ FirstFrame /\ Interrupts THEN "input_intr" ELSE "input", 0)
    /\ nFrames' = nFrames + 1
    /\ readyFrames' = IF InputReady THEN Append(readyFrames, nFrames + 1) ELSE readyFrames
    /\ \E decodes \in BOOLEAN :
         /\ nFail' = IF decodes THEN nFail ELSE nFail + 1
         /\ nFail' <= MaxFail
         /\ IF ~InputReady
            THEN /\ decodes
                 /\ UNCHANGED <<attrs, client_abort, elevenlabs_audio_buffer,
                                elevenlabs_audio_started, elevenlabs_input_count,
                                toBackend, pc, curFrame, dropped, interrupted,
                                notifiedSinceReset>>
            ELSE IF ~FirstFrame
            THEN /\ Forward(nFrames + 1, decodes)
                 /\ UNCHANGED <<client_abort, elevenlabs_audio_buffer,
                                elevenlabs_audio_started, dropped, interrupted,
                                notifiedSinceReset>>
            ELSE /\ decodes
                 /\ attrs' = attrs \cup {"elevenlabs_input_count"}
                 /\ elevenlabs_input_count' = 0
                 /\ curFrame' = nFrames + 1
                 /\ toBackend' = WsSend(toBackend, elevenlabs_ws, "user_activity", "", 0)
                 /\ notifiedSinceReset' = notifiedSinceReset + Len(toBackend') - Len(toBackend)
                 /\ IF Interrupts
                    THEN /\ client_abort' = TRUE
                         /\ elevenlabs_audio_buffer' = <<>>
                         /\ dropped' = dropped + BufLen(elevenlabs_audio_buffer)
                         /\ interrupted' = Cut("input")
                         /\ elevenlabs_audio_started' =
                              IF hasattr("elevenlabs_audio_started") THEN FALSE
                              ELSE elevenlabs_audio_started
                         /\ pc' = "input_notify_intr"
                    ELSE /\ pc' = "input_notify"
                         /\ UNCHANGED <<client_abort, elevenlabs_audio_buffer,
                                        elevenlabs_audio_started, dropped, interrupted>>
    /\ UNCHANGED <<enable_voice2voice, v2v_active, client_is_speaking, client_have_voice,
                   client_voice_stop, elevenlabs_ws, elevenlabs_session_id,
                   elevenlabs_receive_task, audio_flow_control, wsState, taskPc, taskChunk, taskBinary,
                   inCleanup, toDevice, utt, received, nConns, lastChunkUtt, pings, cancelled,
                   cleanedUp, stopped, raised>>

\* lines 377-378, 381: notify_user_speaking has returned; the handler goes
\* on to forward the frame
InputResume ==
    /\ pc \in {"input_notify_intr", "input_notify"}
    /\ client_abort' = IF pc = "input_notify_intr" THEN FALSE ELSE client_abort
    /\ \E decodes \in BOOLEAN :
         /\ nFail' = IF decodes THEN nFail ELSE nFail + 1
         /\ nFail' <= MaxFail
         /\ Forward(curFrame, decodes)
    /\ UNCHANGED <<enable_voice2voice, v2v_active, client_is_speaking, client_have_voice,
                   client_voice_stop, elevenlabs_ws, elevenlabs_session_id,
                   elevenlabs_receive_task, elevenlabs_audio_buffer,
                   elevenlabs_audio_started, audio_flow_control, wsState, taskPc,
                   taskChunk, taskBinary, inCleanup, toDevice, utt, received, nFrames,
                   nConns, readyFrames, lastChunkUtt, interrupted, nEvents, lastEvent, dropped, pings, cancelled, notifiedSinceReset, cleanedUp, stopped, raised>>

\* line 407 returns
InputSent ==
    /\ pc = "input_send"
    /\ pc' = "idle"
    /\ curFrame' = 0
    /\ UNCHANGED <<relayVars, wsState, taskPc, taskChunk, taskBinary, inCleanup, histVars>>


\* ------------------------------------------------------------------ lifecycle
\* lines 59-111: start_conversation to the suspension in the send of the
\* init message; a refused connection ends it through line 128.  Nothing of
\* an earlier connection or task is looked at.
StartConversation ==
    /\ pc = "idle"
    /\ Event("start", 0)
    /\ nConns < MaxConns /\ nConns' = nConns + 1
    /\ cleanedUp' = 0
    /\ stopped' = FALSE
    /\ \E connects \in BOOLEAN :
         IF connects
         THEN /\ elevenlabs_ws' = nConns + 1
              /\ attrs' = attrs \cup {"elevenlabs_ws"}
              /\ wsState' = [wsState EXCEPT ![nConns + 1] = "open"]
              /\ toBackend' = Append(toBackend,
                     BackMsg("conversation_initiation_client_data", nConns + 1, "", 0))
              /\ pc' = "start_init"
              /\ UNCHANGED v2v_active
         ELSE /\ v2v_active' = FALSE
              /\ wsState' = [wsState EXCEPT ![nConns + 1] = "closedErr"]
              /\ UNCHANGED <<elevenlabs_ws, attrs, toBackend, pc>>
    /\ UNCHANGED <<enable_voice2voice, client_abort, client_is_speaking, client_have_voice,
                   client_voice_stop, elevenlabs_session_id, elevenlabs_receive_task,
                   elevenlabs_audio_buffer, elevenlabs_audio_started,
                   elevenlabs_input_count, audio_flow_control, taskPc, taskChunk, taskBinary, curFrame,
                   inCleanup, toDevice, utt, received, nFrames, nFail,
                   lastChunkUtt, interrupted, dropped, pings, cancelled, notifiedSinceReset, readyFrames, raised>>

\* lines 111-128: the send of the init message has returned, the receive
\* task is created and the session marked active; or the send has raised
StartInitSent ==
    /\ pc = "start_init"
    /\ pc' = "idle"
    /\ IF elevenlabs_ws \in Conns /\ wsState[elevenlabs_ws] = "open"
       THEN /\ elevenlabs_receive_task' = elevenlabs_ws
            /\ attrs' = attrs \cup {"elevenlabs_receive_task"}
            /\ taskPc' = [taskPc EXCEPT ![elevenlabs_ws] = "recv"]
            /\ v2v_active' = TRUE
       ELSE /\ v2v_active' = FALSE
            /\ UNCHANGED <<elevenlabs_receive_task, attrs, taskPc>>
    /\ UNCHANGED <<enable_voice2voice, client_abort, client_is_speaking, client_have_voice,
                   client_voice_stop, elevenlabs_ws, elevenlabs_session_id,
                   elevenlabs_audio_buffer, elevenlabs_audio_started,
                   elevenlabs_input_count, audio_flow_control, wsState, taskChunk, taskBinary,
                   curFrame, inCleanup, histVars>>

\* a cleanup that forgets the encoder
attrs_to_clean_no_encoder ==
    {"elevenlabs_ws", "elevenlabs_session_id", "elevenlabs_receive_task",
     "elevenlabs_opus_decoder", "elevenlabs_audio_buffer"}

\* cleanup lines 461-465
attrs_to_clean ==
    {"elevenlabs_ws", "elevenlabs_session_id", "elevenlabs_receive_task",
     "elevenlabs_opus_decoder", "elevenlabs_opus_encoder", "elevenlabs_audio_buffer"}

\* lines 446-449: the except clause of stop_conversation catches every Exception
StopCatches == TRUE

\* the end of stop_conversation, ws being what it leaves in conn.elevenlabs_ws
\* and err telling that its try block raised; when cleanup called it, lines
\* 460-469 follow without a suspension
StopReturns(ws, fromCleanup, err) ==
    /\ pc' = "idle"
    /\ raised' = (raised \/ (err /\ ~StopCatches))
    /\ inCleanup' = FALSE
    /\ stopped' = TRUE
    /\ cleanedUp' = IF fromCleanup THEN (IF cleanedUp < 2 THEN cleanedUp + 1 ELSE 2)
                    ELSE cleanedUp
    /\ dropped' = IF fromCleanup THEN dropped + BufLen(elevenlabs_audio_buffer) ELSE dropped
    /\ IF fromCleanup
       THEN /\ attrs' = attrs \ attrs_to_clean
            /\ elevenlabs_ws' = 0
            /\ elevenlabs_session_id' = ""
            /\ elevenlabs_receive_task' = 0
            /\ elevenlabs_audio_buffer' = <<>>
       ELSE /\ elevenlabs_ws' = ws
            /\ UNCHANGED <<attrs, elevenlabs_session_id, elevenlabs_receive_task,
                           elevenlabs_audio_buffer>>


\* line 441, close() is called: an open connection starts its closing
\* handshake, a closed one stays as it is
Closing(state) == IF state = "open" THEN "closing" ELSE state

\* lines 439-442: the connection is closed if the session holds one; reading
\* an attribute cleanup has deleted raises into line 446
StopClose(fromCleanup) ==
    IF NoWs
    THEN /\ StopReturns(elevenlabs_ws, fromCleanup, ~hasattr("elevenlabs_ws"))
         /\ UNCHANGED wsState
    ELSE /\ wsState' = [wsState EXCEPT ![elevenlabs_ws] = Closing(wsState[elevenlabs_ws])]
         /\ pc' = "stop_close"
         /\ inCleanup' = fromCleanup
         /\ UNCHANGED <<attrs, elevenlabs_ws, elevenlabs_session_id,
                        elevenlabs_receive_task, elevenlabs_audio_buffer, cleanedUp, stopped,
                        dropped, raised>>

\* the task stop_conversation cancels (line 432)
HeldTask ==
    IF hasattr("elevenlabs_receive_task") THEN elevenlabs_receive_task ELSE 0

\* the awaits a handler of the receive loop is suspended in
Suspended == {"tts_start", "send_audio", "tts_stop", "pong"}

\* lines 147-155: CancelledError raised at an await inside the handler of a
\* binary message is caught by the bare except of line 154, and the loop goes
\* on to wait for the next message; at every other await it ends the task
Swallows(t) == taskPc[t] \in Suspended /\ taskBinary[t]

\* a teardown that does not wait for the task
TaskFinishedNoAwait(t) == TRUE

\* line 435: the await returns when the task has finished
TaskFinished(t) == taskPc[t] = "done"

\* lines 421-449 (and 458 when cleanup calls it): the session is marked
\* inactive, the held task is cancelled and awaited
StopConversation(fromCleanup) ==
    /\ pc = "idle"
    /\ Event("other", 0)
    /\ v2v_active' = FALSE
    /\ IF HeldTask # 0 /\ taskPc[HeldTask] # "done"
       THEN /\ taskPc' = [taskPc EXCEPT ![HeldTask] =
                                 IF Swallows(HeldTask) THEN "recv" ELSE "done"]
            /\ taskBinary' = [taskBinary EXCEPT ![HeldTask] = FALSE]
            /\ cancelled' = (cancelled \/ taskPc[HeldTask] \in Suspended)
            /\ taskChunk' = [taskChunk EXCEPT ![HeldTask] = NoChunk]
            /\ dropped' = dropped + RunLen(taskChunk[HeldTask])
            /\ pc' = "stop_await"
            /\ inCleanup' = fromCleanup
            /\ UNCHANGED <<attrs, elevenlabs_ws, elevenlabs_session_id,
                           elevenlabs_receive_task, elevenlabs_audio_buffer, wsState,
                           cleanedUp, stopped, raised>>
       ELSE /\ StopClose(fromCleanup)
            /\ UNCHANGED <<taskPc, taskChunk, taskBinary, cancelled>>
    /\ UNCHANGED <<enable_voice2voice, client_abort, client_is_speaking, client_have_voice,
                   client_voice_stop, elevenlabs_audio_started, elevenlabs_input_count,
                   audio_flow_control, curFrame, toDevice, toBackend, utt, received,
                   nFrames, nConns, readyFrames, nFail, lastChunkUtt, interrupted, pings,
                   notifiedSinceReset>>

\* line 435 returns
StopAwaited ==
    /\ pc = "stop_await"
    /\ HeldTask # 0 => TaskFinished(HeldTask)
    /\ StopClose(inCleanup)
    /\ UNCHANGED <<enable_voice2voice, v2v_active, client_abort, client_is_speaking,
                   client_have_voice, client_voice_stop, elevenlabs_audio_started,
                   elevenlabs_input_count, audio_flow_control, taskPc, taskChunk, taskBinary, curFrame,
                   toDevice, toBackend, utt, received, nEvents, lastEvent, nFrames, nConns, readyFrames,
                   lastChunkUtt, interrupted, pings, cancelled, notifiedSinceReset, nFail>>

\* what a close() that raised has left of the connection it was closing:
\* closed, or still open
FailedCloseLeaves == {"closedOK", "open"}

\* line 441 returns: the connection is closed
Closed(state) == IF state = "closing" THEN "closedOK" ELSE state

\* line 441 returns, and line 442 drops the handle; or close() raises into
\* line 446 and the handle stays
StopClosed ==
    /\ pc = "stop_close"
    /\ \E closes \in BOOLEAN :
         /\ nFail' = IF closes THEN nFail ELSE nFail + 1
         /\ nFail' <= MaxFail
         /\ StopReturns(IF closes THEN 0 ELSE elevenlabs_ws, inCleanup, ~closes)
         /\ IF closes \/ wsState[elevenlabs_ws] # "closing"
            THEN wsState' = [wsState EXCEPT ![elevenlabs_ws] = Closed(wsState[elevenlabs_ws])]
            ELSE \E how \in FailedCloseLeaves :
                     wsState' = [wsState EXCEPT ![elevenlabs_ws] = how]
    /\ UNCHANGED <<enable_voice2voice, v2v_active, client_abort, client_is_speaking,
                   client_have_voice, client_voice_stop, elevenlabs_audio_started,
                   elevenlabs_input_count, audio_flow_control, taskPc, taskChunk, taskBinary,
                   curFrame, toDevice, toBackend, utt, received, nFrames,
                   nConns, readyFrames, lastChunkUtt, interrupted, nEvents, lastEvent, pings, cancelled, notifiedSinceReset>>

\* ------------------------------------------------------------ specification
ReceiveLoop(t) ==
    \/ RecvInactive(t)
    \/ RecvClosed(t)
    \/ RecvMetadata(t)
    \/ RecvUserTranscript(t)
    \/ RecvAgentResponse(t)
    \/ RecvInterruption(t)
    \/ \E id \in EventIds : RecvPing(t, id)
    \/ \E kind \in DroppedKinds : RecvDropped(t, kind)
    \/ \E n \in ChunkSizes : RecvAudio(t, n)
    \/ ResumeRecv(t)
    \/ ResumeTtsStart(t)
    \/ ResumeSendAudio(t)

Device ==
    \/ ListenStart
    \/ ListenResume
    \/ AudioInput
    \/ InputResume
    \/ InputSent

Lifecycle ==
    \/ StartConversation
    \/ StartInitSent
    \/ StopConversation(FALSE)
    \/ StopConversation(TRUE)
    \/ StopAwaited
    \/ StopClosed

Next ==
    \/ \E t \in Conns : ReceiveLoop(t)
    \/ \E c \in Conns : BackendClose(c)
    \/ Device
    \/ Lifecycle

Spec == Init /\ [][Next]_vars


\* ===================================================================== claims
Started == hasattr("elevenlabs_audio_started") /\ elevenlabs_audio_started
Muted == client_abort /\ ~client_is_speaking /\ elevenlabs_audio_buffer = <<>> /\ ~Started

AudioIdx == {k \in 1..Len(toDevice) : toDevice[k].type = "audio"}
NumFrames == Cardinality(AudioIdx)
HasUtt(frame, u) == \E j \in 1..Len(frame) : frame[j].utt = u

RECURSIVE ReceivedUpTo(_)
ReceivedUpTo(c) == IF c = 0 THEN 0 ELSE received[c] + ReceivedUpTo(c - 1)
TotalReceived == ReceivedUpTo(MaxConns)

\* the runs of the frames sent to the device, in the order they were sent
RECURSIVE SentRuns(_)
SentRuns(log) ==
    IF log = <<>> THEN <<>>
    ELSE (IF Head(log).type = "audio" THEN Head(log).frame ELSE <<>>) \o SentRuns(Tail(log))

\* the cut utterance is heard again after the cut: a playback start is sent
\* for it, or a frame holding bytes of it
LeaksAfter(i) ==
    \E k \in (i.at + 1)..Len(toDevice) :
        \/ toDevice[k].type = "tts_start" /\ toDevice[k].utt = i.utt
        \/ toDevice[k].type = "audio" /\ HasUtt(toDevice[k].frame, i.utt)

\* C1: once a device start-of-speech has muted the relay, no playback start
\* and no frame of the interrupted utterance is sent to the device, whatever
\* the receive loop does meanwhile.
C1_NoLeakAfterListenStart ==
    \A i \in interrupted : i.by = "listen" => ~LeaksAfter(i)

\* C2: when the listen handler hands the user_activity notification to the
\* backend connection, the relay is already muted: abort set, speaking
\* false, buffer empty, playback-started false; the step that mutes is the
\* step that sends, no backend message lies between them.
NotifiedByListen ==
    /\ pc = "idle" /\ pc' = "listen_notify"
    /\ toBackend' = Append(toBackend, BackMsg("user_activity", elevenlabs_ws, "", 0))
C2_MuteBeforeNotify == [][NotifiedByListen => Muted']_vars

C2_Witness ==
    /\ pc = "listen_notify"
    /\ Muted
    /\ toBackend # <<>> /\ toBackend[Len(toBackend)].type = "user_activity"
    /\ dropped > 0
    /\ AudioIdx # {}

\* C3: an abort raised while the relay is draining ends the utterance: no
\* frame of it is sent afterwards, also from bytes of it appended later.
C3_NoFrameAfterAbortMidDrain ==
    \A i \in interrupted :
        i.draining =>
            ~\E k \in (i.at + 1)..Len(toDevice) :
                toDevice[k].type = "audio" /\ HasUtt(toDevice[k].frame, i.utt)

\* C4 as claimed: no playback start and no frame before the buffer holds two
\* frames (3840 bytes).
C4_PrebufferTwoFrames ==
    \A k \in 1..Len(toDevice) :
        toDevice[k].type \in {"tts_start", "audio"} => toDevice[k].held >= 2 * frame_size

\* C4 as amended: no frame is sent before the buffer holds one frame (1920
\* bytes); the playback start is sent with the first chunk of an utterance
\* whatever the buffer holds.
C4_FrameNeedsOneFrame ==
    \A k \in AudioIdx : toDevice[k].held >= frame_size

C4_Witness ==
    \E k \in AudioIdx :
        /\ toDevice[k].held < 2 * frame_size
        /\ \E j \in 1..(k - 1) : toDevice[j].type = "tts_start" /\ toDevice[j].held < frame_size

Processed == \A t \in Conns : taskPc[t] \in {"none", "recv"}
C6_BufferAccounting ==
    (dropped = 0 /\ ~cancelled /\ Processed) =>
        /\ BufLen(elevenlabs_audio_buffer) = TotalReceived - frame_size * NumFrames
        /\ BufLen(elevenlabs_audio_buffer) < frame_size

C6_Witness ==
    /\ dropped = 0 /\ ~cancelled /\ Processed
    /\ TotalReceived = 2200
    /\ NumFrames = 1
    /\ BufLen(elevenlabs_audio_buffer) = 280
    /\ Len(elevenlabs_audio_buffer) = 2

\* C7: the step that handles agent_response leaves playback-started false
\* and speaking false and sends one stop indication to the device, whatever
\* the flags were.
AgentResponseHandled == \E t \in Conns : taskPc[t] = "recv" /\ taskPc'[t] = "tts_stop"
C7_AgentResponseEndsTurn ==
    [][AgentResponseHandled =>
         /\ ~Started'
         /\ ~client_is_speaking'
         /\ toDevice' = Append(toDevice, DevMsg("tts_stop", <<>>, 0, 0))]_vars

C7_Witness ==
    /\ \E t \in Conns : taskPc[t] = "tts_stop"
    /\ Len(toDevice) >= 4
    /\ toDevice[Len(toDevice)].type = "tts_stop"
    /\ toDevice[Len(toDevice) - 1].type = "tts_stop"
    /\ toDevice[Len(toDevice) - 2].type = "audio"
    /\ ~Started /\ ~client_is_speaking

\* C8: every ping is answered by one pong with its event_id on the
\* connection it arrived on.
Pongs == SelectSeq(toBackend, LAMBDA m : m.type = "pong")
C8_PongOnSameConnection ==
    /\ Len(Pongs) = Len(pings)
    /\ \A k \in 1..Len(pings) :
         Pongs[k].ws = pings[k][1] /\ Pongs[k].event_id = pings[k][2]

\* C9: from the return of cleanup on (and so after a second cleanup), until
\* the next start_conversation, the session holds no connection handle, no
\* task, no codec and no buffer, and no error has reached the caller.
Resources ==
    {"elevenlabs_ws", "elevenlabs_receive_task", "elevenlabs_opus_decoder",
     "elevenlabs_opus_encoder", "elevenlabs_audio_buffer"}
C9_CleanupReleases ==
    cleanedUp >= 1 =>
        /\ attrs \cap Resources = {}
        /\ elevenlabs_ws = 0 /\ elevenlabs_receive_task = 0
        /\ elevenlabs_audio_buffer = <<>>
        /\ ~raised

C9_Witness ==
    /\ cleanedUp = 2
    /\ pc = "idle"
    /\ TotalReceived > 0
    /\ nFail > 0

\* C10: at most one backend connection is open and at most one receive loop
\* is running.
C10_SingleConnection ==
    /\ Cardinality({c \in Conns : wsState[c] = "open"}) <= 1
    /\ Cardinality({t \in Conns : taskPc[t] \notin {"none", "done"}}) <= 1

\* the messages of one type sent to the backend
OfType(log, type) == SelectSeq(log, LAMBDA m : m.type = type)

\* the messages a step has put on the backend wire
NewToBackend == SubSeq(toBackend', Len(toBackend) + 1, Len(toBackend'))

\* a device frame enters handle_audio_input; the handler comes back from
\* the notification it sent for a frame
FrameArrives == nFrames' = nFrames + 1
NotifyReturns == pc \in {"input_notify", "input_notify_intr"} /\ pc' # pc

\* C11: fewer than 5 device frames that arrive while the agent is not
\* speaking and the relay is ready mute nothing: the steps that handle them
\* leave the abort flag, the output buffer and the playback-started flag as
\* they were and cut no utterance; and when the agent has not spoken and no
\* start-of-speech was handled, the activity counter equals the number of
\* these frames once the handler is through.
NeverSpoken == TotalReceived = 0 /\ ~client_have_voice
IdleFrameStep ==
    \/ FrameArrives /\ ~client_is_speaking
    \/ pc = "input_notify" /\ pc' # pc
C11_IdleFramesOnlyCounted ==
    /\ []((NeverSpoken /\ Len(readyFrames) < 5
           /\ readyFrames # <<>> /\ pc \notin {"input_notify", "input_notify_intr"})
          => (hasattr("elevenlabs_input_count")
              /\ elevenlabs_input_count = Len(readyFrames)))
    /\ [][(IdleFrameStep /\ Len(readyFrames') < 5)
          => (/\ client_abort' = client_abort /\ ~client_abort'
              /\ elevenlabs_audio_buffer' = elevenlabs_audio_buffer
              /\ elevenlabs_audio_started' = elevenlabs_audio_started
              /\ interrupted' = interrupted
              /\ dropped' = dropped)]_vars

C11_Witness ==
    /\ NeverSpoken
    /\ Len(readyFrames) = 3
    /\ elevenlabs_input_count = 3
    /\ pc = "idle"
    /\ Len(OfType(toBackend, "user_audio_chunk")) >= 2
    /\ ~client_abort

\* C12 as claimed: the inbound relay sends no user-activity notification and
\* interrupts nothing before the 5th frame since the counter was reset.
C12_NothingBeforeFifthFrame ==
    pc \in {"input_notify", "input_notify_intr"} => Len(readyFrames) >= 5

\* C12 as amended: the heuristic acts on the frame that finds no activity
\* counter, and on no other: that frame creates the counter and sends one
\* user-activity notification, after an implicit interruption when the agent
\* is speaking; a frame that finds the counter, and the rest of the handler
\* after the notification, send no user-activity notification and interrupt
\* nothing.
C12_ActsOnFirstFrameOnly ==
    [][/\ (FrameArrives /\ InputReady) =>
            LET first == ~hasattr("elevenlabs_input_count")
                open == wsState[elevenlabs_ws] = "open"
            IN /\ first =>
                    /\ hasattr("elevenlabs_input_count")'
                    /\ pc' = IF client_is_speaking THEN "input_notify_intr" ELSE "input_notify"
                    /\ client_abort' = (client_is_speaking \/ client_abort)
                    /\ NewToBackend = IF open
                                      THEN <<BackMsg("user_activity", elevenlabs_ws, "", 0)>>
                                      ELSE <<>>
               /\ ~first =>
                    /\ pc' \in {"idle", "input_send"}
                    /\ OfType(NewToBackend, "user_activity") = <<>>
                    /\ client_abort' = client_abort
                    /\ interrupted' = interrupted
       /\ NotifyReturns =>
            /\ OfType(NewToBackend, "user_activity") = <<>>
            /\ interrupted' = interrupted]_vars

C12_Witness ==
    /\ Len(readyFrames) = 2
    /\ pc = "input_send"
    /\ elevenlabs_input_count = 2
    /\ Len(OfType(toBackend, "user_activity")) = 1
    /\ \E i \in interrupted : i.by = "input"

\* C13: the step that handles a message of an unknown type, or an envelope
\* that does not parse, changes nothing of the session, sends nothing to the
\* device or the backend, leaves every connection as it is and the session
\* active, and leaves the receive loop ready for the next message.
DroppedStep == nEvents' = nEvents + 1 /\ lastEvent'.kind \in {"unknown", "malformed"}
C13_DroppedMessageChangesNothing ==
    [][DroppedStep =>
         /\ UNCHANGED <<attrs, client_abort, client_is_speaking, elevenlabs_ws,
                        elevenlabs_session_id, elevenlabs_receive_task,
                        elevenlabs_audio_buffer, elevenlabs_audio_started,
                        elevenlabs_input_count, audio_flow_control>>
         /\ UNCHANGED <<toDevice, toBackend, wsState, taskPc>>
         /\ v2v_active'
         /\ taskPc'[lastEvent'.ws] = "recv" /\ wsState'[lastEvent'.ws] = "open"]_vars

C13_Witness ==
    /\ lastEvent.kind \in {"unknown", "malformed"}
    /\ v2v_active
    /\ elevenlabs_audio_buffer # <<>>
    /\ client_is_speaking
    /\ AudioIdx # {}
    /\ taskPc[lastEvent.ws] = "recv"

\* C14: once the connection the session holds has dropped and its receive
\* loop has stopped, the session is marked inactive, whatever the kind of
\* close.
C14_DropMarksInactive ==
    \A c \in Conns :
        (elevenlabs_ws = c /\ wsState[c] \in {"closedOK", "closedErr"} /\ taskPc[c] = "done")
            => ~v2v_active

\* C15: a device frame that arrives while the session is inactive or holds
\* no connection handle is a no-op: no counter, no codec, no flag and nothing
\* else of the session changes, and nothing is sent to the backend or the
\* device.
C15_NotReadyIsNoOp ==
    [][(FrameArrives /\ (~v2v_active \/ ~hasattr("elevenlabs_ws") \/ elevenlabs_ws = 0))
         => (/\ UNCHANGED relayVars
             /\ UNCHANGED <<toBackend, toDevice, wsState, taskPc>>
             /\ pc' = "idle")]_vars

C15_Witness ==
    /\ lastEvent.kind = "input"
    /\ ~v2v_active
    /\ elevenlabs_ws # 0
    /\ nConns >= 1
    /\ readyFrames = <<>>
    /\ ~hasattr("elevenlabs_input_count")
    /\ pc = "idle"

\* C16: with no decode or send failure and every connection still open,
\* once the inbound relay is through, the frames forwarded to the backend
\* are the frames that arrived while the relay was ready, each once and in
\* their order of arrival.
ForwardedFrames ==
    LET sent == OfType(toBackend, "user_audio_chunk")
    IN [k \in 1..Len(sent) |-> sent[k].frame]
C16_ReadyFramesForwardedInOrder ==
    (pc = "idle" /\ nFail = 0 /\ \A c \in Conns : wsState[c] \in {"unopened", "open"})
        => ForwardedFrames = readyFrames

\* C17: teardown marks the session inactive before it suspends, and closes
\* the backend connection only when the receive loop it cancelled has
\* finished, also when the loop swallowed the cancellation: from the close
\* on, no receive loop is left on the connection teardown closes, so none
\* handles a message after it.
TeardownCloses == pc # "stop_close" /\ pc' = "stop_close"
C17_TaskFinishedBeforeClose ==
    /\ [](pc \in {"stop_await", "stop_close"} => ~v2v_active)
    /\ [](pc = "stop_close" =>
            /\ HeldTask # 0 => taskPc[HeldTask] = "done"
            /\ taskPc[elevenlabs_ws] \in {"none", "done"})
    /\ [][TeardownCloses =>
            /\ pc \in {"idle", "stop_await"}
            /\ wsState'[elevenlabs_ws] \in {"closing", "closedOK", "closedErr"}
            /\ \A c \in Conns \ {elevenlabs_ws} : wsState'[c] = wsState[c]]_vars

C17_Witness ==
    /\ pc = "stop_close"
    /\ elevenlabs_ws # 0
    /\ lastEvent.ws = elevenlabs_ws
    /\ taskPc[elevenlabs_ws] = "done"
    /\ cancelled
    /\ wsState[elevenlabs_ws] = "closing"

\* C18: with voice-to-voice enabled, the step of the start-of-speech
\* handler up to its notification leaves speaking false, playback-started
\* false, the output buffer empty and flow control reset, and sends one
\* user-activity notification if the session holds an open connection, none
\* otherwise; the step that ends the handler clears the abort flag, whether
\* the send went through or not, and changes none of the others.  With no
\* step of the receive loop in between, that is the state the handler
\* completes in.
ListenStep == nEvents' = nEvents + 1 /\ lastEvent'.kind = "listen" /\ enable_voice2voice
ListenEnds == pc = "listen_notify" /\ pc' # pc
C18_ListenCompletesUnmuted ==
    [][/\ ListenStep =>
            /\ ~client_is_speaking' /\ ~Started'
            /\ elevenlabs_audio_buffer' = <<>>
            /\ audio_flow_control' = 0
            /\ IF ~hasattr("elevenlabs_ws") \/ elevenlabs_ws = 0
               THEN ~client_abort' /\ pc' = "idle" /\ NewToBackend = <<>>
               ELSE /\ pc' = "listen_notify"
                    /\ NewToBackend = IF wsState[elevenlabs_ws] = "open"
                                      THEN <<BackMsg("user_activity", elevenlabs_ws, "", 0)>>
                                      ELSE <<>>
       /\ ListenEnds =>
            /\ pc' = "idle"
            /\ ~client_abort'
            /\ UNCHANGED <<client_is_speaking, elevenlabs_audio_started,
                           elevenlabs_audio_buffer, audio_flow_control, attrs, toBackend,
                           toDevice>>]_vars

C18_Witness ==
    /\ pc = "idle"
    /\ lastEvent.kind = "listen"
    /\ enable_voice2voice
    /\ ~client_abort /\ ~client_is_speaking /\ ~Started
    /\ elevenlabs_audio_buffer = <<>>
    /\ toBackend # <<>> /\ toBackend[Len(toBackend)].type = "user_activity"
    /\ dropped > 0
    /\ AudioIdx # {}

\* C19: the implicit interruption of the inbound relay mutes as the
\* start-of-speech handler does before it notifies: while its notification
\* is on its way the abort flag is set, the speaking flag false, the
\* playback-started flag false and the output buffer empty.
C19_ImplicitMutesLikeExplicit ==
    pc = "input_notify_intr" => Muted

\* C20: the step that handles user_transcript leaves the abort flag, the
\* speaking flag and the playback-started flag false and sends nothing to
\* the device, and the next audio chunk opens a fresh utterance: the step
\* that takes it sends a playback start.
TranscriptStep == nEvents' = nEvents + 1 /\ lastEvent'.kind = "user_transcript"
ChunkAfterTranscript ==
    /\ lastEvent.kind = "user_transcript"
    /\ \E t \in Conns : received'[t] > received[t]
C20_TranscriptOpensFreshUtterance ==
    [][/\ TranscriptStep =>
            /\ ~client_abort' /\ ~client_is_speaking' /\ ~Started'
            /\ toDevice' = toDevice
       /\ ChunkAfterTranscript =>
            /\ toDevice' = Append(toDevice, DevMsg("tts_start", <<>>, utt, toDevice'[Len(toDevice')].held))
            /\ Started' /\ client_is_speaking']_vars

C20_Witness ==
    /\ lastEvent.kind = "user_transcript"
    /\ AudioIdx # {}
    /\ hasattr("elevenlabs_audio_started") /\ ~Started
    /\ ~client_is_speaking /\ ~client_abort
    /\ elevenlabs_audio_buffer # <<>>
    /\ utt = 2

\* C21: the step that handles the interruption-ack leaves playback-started
\* false, the output buffer empty and speaking false, leaves the abort flag
\* as it was and sends nothing to the backend or the device; a second ack
\* changes nothing, and neither does an ack that is the first message after
\* a local mute (the start-of-speech handler with the relay enabled, or the
\* implicit interruption of the inbound relay) when no chunk was appended
\* since: the buffer is empty as the mute left it.
AckStep == nEvents' = nEvents + 1 /\ lastEvent'.kind = "interruption"
LocalMuteLast ==
    \/ lastEvent.kind = "listen" /\ enable_voice2voice
    \/ lastEvent.kind = "input_intr"
NoChunkSince == elevenlabs_audio_buffer = <<>>
C21_AckIsNoOpAfterLocalMute ==
    [][AckStep =>
         /\ ~Started' /\ ~client_is_speaking'
         /\ elevenlabs_audio_buffer' = <<>>
         /\ client_abort' = client_abort
         /\ toBackend' = toBackend /\ toDevice' = toDevice
         /\ lastEvent.kind = "interruption" => UNCHANGED relayVars
         /\ (LocalMuteLast /\ NoChunkSince) => UNCHANGED relayVars]_vars

\* the messages a step has sent to the device
NewToDevice == SubSeq(toDevice', Len(toDevice) + 1, Len(toDevice'))
ChunkArrives == \E t \in Conns : received'[t] > received[t]
StartIdx == {k \in 1..Len(toDevice) : toDevice[k].type = "tts_start"}

\* a reset lies between the playback starts at j and k of the device log: a
\* user_transcript or an interruption-ack (the backend is at a later
\* utterance), an agent_response (its stop indication is in the log), or a
\* local interruption, explicit or implicit (a cut of the utterance)
ResetBetween(j, k) ==
    \/ toDevice[j].utt < toDevice[k].utt
    \/ \E m \in (j + 1)..(k - 1) : toDevice[m].type = "tts_stop"
    \/ \E i \in interrupted : i.utt = toDevice[j].utt /\ j <= i.at /\ i.at < k

\* C22: a step sends a playback start to the device exactly when it takes
\* an agent audio chunk while playback-started is false, and then it sets
\* the speaking flag and the playback-started flag and sends one start; a
\* chunk taken while playback-started is true sends no start; and between
\* two playback starts of the device log there is always a reset event.
C22_StartOncePerUtterance ==
    /\ [](\A j, k \in StartIdx : j < k => ResetBetween(j, k))
    /\ [][/\ (OfType(NewToDevice, "tts_start") # <<>>) <=> (ChunkArrives /\ ~Started)
          /\ (ChunkArrives /\ ~Started) =>
                /\ Started' /\ client_is_speaking'
                /\ NewToDevice = <<DevMsg("tts_start", <<>>, utt, toDevice'[Len(toDevice')].held)>>
          /\ (ChunkArrives /\ Started) =>
                /\ Started'
                /\ client_is_speaking' = client_is_speaking]_vars

C22_Witness ==
    /\ Cardinality(StartIdx) = 2
    /\ \E j, k \in StartIdx : j < k /\ toDevice[j].utt = toDevice[k].utt
    /\ \E k \in AudioIdx : \A j \in StartIdx : j < k
    /\ Started /\ client_is_speaking

\* C23: the first chunk of a fresh utterance deletes the activity counter;
\* since the counter was last deleted (or since the start) the inbound relay
\* has sent at most one user-activity notification, however many frames
\* arrived; and a ready frame that finds no counter sends one when the
\* connection is open: every reset arms the relay again.
C23_OneNotificationPerReset ==
    /\ [](notifiedSinceReset <= 1)
    /\ [][/\ (ChunkArrives /\ ~Started) => ~hasattr("elevenlabs_input_count")'
          /\ (FrameArrives /\ InputReady /\ hasattr("elevenlabs_input_count")) =>
                /\ OfType(NewToBackend, "user_activity") = <<>>
                /\ hasattr("elevenlabs_input_count")'
          /\ (FrameArrives /\ InputReady /\ ~hasattr("elevenlabs_input_count")
                /\ wsState[elevenlabs_ws] = "open") =>
                /\ Len(OfType(NewToBackend, "user_activity")) = 1
                /\ notifiedSinceReset' = 1]_vars

C23_Witness ==
    /\ StartIdx # {}
    /\ Len(OfType(toBackend, "user_activity")) = 2
    /\ ~client_have_voice
    /\ notifiedSinceReset = 1
    /\ nFrames = 2

\* C24: the step in which the encoder (or the send to the device) fails on
\* an outbound frame drops that frame only, leaves the session active and
\* the receive loop running, and the drain goes on: it ends only when the
\* buffer holds no complete frame any more.
OutboundFails ==
    /\ nFail' = nFail + 1
    /\ \/ ChunkArrives
       \/ \E t \in Conns : taskPc[t] \in {"tts_start", "send_audio"} /\ taskPc'[t] # taskPc[t]
C24_EncodeFailureDropsOneFrame ==
    [][OutboundFails =>
         /\ v2v_active' = v2v_active
         /\ \A t \in Conns : taskPc'[t] = "done" => taskPc[t] = "done"
         /\ dropped' = dropped + frame_size
         /\ HasFrame(elevenlabs_audio_buffer') =>
                \E t \in Conns : taskPc'[t] = "send_audio"]_vars

\* C25: the step in which the decoder fails on an inbound frame sends
\* nothing to the backend, leaves the session active, the connection and
\* its handle as they were, raises nothing to the caller and ends the
\* handler; and a ready frame that decodes, after a failure as before one,
\* is forwarded on the open connection when it finds the counter.
DecodeFails == nFail' = nFail + 1 /\ (FrameArrives \/ NotifyReturns)
C25_DecodeFailureSkipsFrame ==
    [][/\ DecodeFails =>
            /\ NewToBackend = <<>>
            /\ toDevice' = toDevice
            /\ v2v_active' = v2v_active
            /\ FrameArrives => v2v_active'
            /\ wsState' = wsState /\ elevenlabs_ws' = elevenlabs_ws
            /\ ~raised'
            /\ pc' = "idle"
       /\ (FrameArrives /\ InputReady /\ hasattr("elevenlabs_input_count")
             /\ nFail' = nFail /\ wsState[elevenlabs_ws] = "open") =>
            /\ NewToBackend = <<BackMsg("user_audio_chunk", elevenlabs_ws, "", nFrames + 1)>>
            /\ pc' = "input_send"]_vars

C25_Witness ==
    /\ nFail = 1
    /\ readyFrames = <<1, 2, 3>>
    /\ ForwardedFrames = <<1, 3>>
    /\ v2v_active /\ wsState[elevenlabs_ws] = "open"
    /\ ~raised

\* C26: the step in which start_conversation fails (the connection is
\* refused, or the init message cannot be sent) raises nothing to the
\* caller and leaves the session inactive, with no receive loop running and
\* no open connection held; and no connection is opened but by a call of
\* start_conversation.
StartFails ==
    \/ pc = "idle" /\ nConns' = nConns + 1 /\ pc' = "idle"
    \/ pc = "start_init" /\ pc' = "idle" /\ ~v2v_active'
NoLoopNoConnection ==
    /\ \A t \in Conns : taskPc[t] \in {"none", "done"}
    /\ elevenlabs_ws = 0 \/ wsState[elevenlabs_ws] # "open"
C26_FailedStartLeavesInactive ==
    [][/\ StartFails =>
            /\ ~raised'
            /\ ~v2v_active'
            /\ NoLoopNoConnection'
       /\ (\E c \in Conns : wsState[c] = "unopened" /\ wsState'[c] # "unopened") =>
            nEvents' = nEvents + 1 /\ lastEvent'.kind = "start"]_vars

\* C27: with the relay disabled, the step that handles a device
\* start-of-speech sets client_have_voice, clears client_voice_stop and
\* changes nothing else of the session: abort flag, speaking flag,
\* playback-started flag, output buffer, flow control and activity counter
\* stay as they were, and nothing is sent to the backend or the device.
ListenStepDisabled ==
    nEvents' = nEvents + 1 /\ lastEvent'.kind = "listen" /\ ~enable_voice2voice
C27_DisabledListenSetsVoiceFlagsOnly ==
    [][ListenStepDisabled =>
         /\ client_have_voice' /\ ~client_voice_stop'
         /\ UNCHANGED <<attrs, enable_voice2voice, v2v_active, client_abort,
                        client_is_speaking, elevenlabs_ws, elevenlabs_session_id,
                        elevenlabs_receive_task, elevenlabs_audio_buffer,
                        elevenlabs_audio_started, elevenlabs_input_count,
                        audio_flow_control>>
         /\ UNCHANGED <<toBackend, toDevice, interrupted, dropped>>
         /\ pc' = "idle"]_vars

C27_Witness ==
    /\ lastEvent.kind = "listen"
    /\ ~enable_voice2voice
    /\ client_have_voice /\ ~client_voice_stop
    /\ client_is_speaking /\ Started
    /\ elevenlabs_audio_buffer # <<>>
    /\ audio_flow_control = 1
    /\ OfType(toBackend, "user_activity") = <<>>
    /\ pc = "idle"

\* C28: whenever no handler is suspended (the sequential path is idle and no
\* receive loop is inside a handler), the speaking flag is true only if the
\* playback-started flag is true.
NoHandlerSuspended ==
    /\ pc = "idle"
    /\ \A t \in Conns : taskPc[t] \notin Suspended
C28_SpeakingOnlyWhileStarted ==
    NoHandlerSuspended => (client_is_speaking => Started)

\* C29: the abort flag is set only while an explicit or implicit
\* interruption is suspended in its user-activity notification; the step
\* that ends the notification clears it, whether the send went through or
\* not; and no other step clears it meanwhile.
Interrupting == pc \in {"listen_notify", "input_notify_intr"}
C29_AbortOnlyWhileInterrupting ==
    /\ [](client_abort => Interrupting)
    /\ [][/\ (Interrupting /\ pc' # pc) => ~client_abort'
          /\ (client_abort /\ ~client_abort') => (Interrupting /\ pc' # pc)]_vars

\* C30: from the return of stop_conversation (or cleanup) until the next
\* call of start_conversation no step sends anything to the backend or to
\* the device, also when close() failed during the stop.
StartCalled == nEvents' = nEvents + 1 /\ lastEvent'.kind = "start"
C30_SilentAfterStop ==
    [][(stopped /\ ~StartCalled) =>
         (toBackend' = toBackend /\ toDevice' = toDevice)]_vars

\* C31: in a run in which nothing was discarded, no codec or send failed, no
\* handler was cancelled, the device sent neither a start-of-speech nor an
\* audio frame, and no handler is suspended, the step that ends an utterance
\* (agent_response, or the next user_transcript) leaves no byte of it in the
\* output buffer, and the step that starts a fresh utterance finds the
\* buffer empty.
QuietRun ==
    /\ dropped = 0 /\ nFail = 0 /\ ~cancelled
    /\ ~client_have_voice /\ readyFrames = <<>>
    /\ \A t \in Conns : taskPc[t] \notin Suspended
UtteranceEnds == AgentResponseHandled \/ TranscriptStep
C31_NoTailStranded ==
    [][/\ (QuietRun /\ UtteranceEnds) => ~HasUtt(elevenlabs_audio_buffer', utt)
       /\ (QuietRun /\ ChunkArrives /\ ~Started) => elevenlabs_audio_buffer' = <<>>]_vars

=============================================================================
